---- MODULE Spec2Model ----
(***************************************************************************)
(* SymProxyCloud: a symbol-server reverse proxy (src/main.rs).             *)
(*                                                                         *)
(* The model follows the `symbol` request handler: the fallback chain is   *)
(* computed from the configuration, the candidates are tried one after the *)
(* other, and the first 2xx answer is either passed through or teed into a *)
(* staging directory by a detached task that afterwards runs the external  *)
(* publisher (symbol.exe) and removes the directory.                       *)
(*                                                                         *)
(* Strings that the code inspects (host names) are sequences of one-       *)
(* character strings, so that `ends_with` is computed, not assumed.        *)
(***************************************************************************)
EXTENDS Integers, Sequences, FiniteSets, TLC

(***************************************************************************)
(* Bounds of the model.                                                    *)
(***************************************************************************)
\* Longest `servers` list of a configuration.
MaxServers == 2
\* Largest declared content length (bytes) of an upstream response.
MaxLen == 2
\* Request slots (requests the environment may have in flight).
MaxReqs == 2

(***************************************************************************)
(* Program constants.                                                      *)
(***************************************************************************)
\* tokio::sync::mpsc::channel(32)
ChannelCapacity == 32
\* StatusCode::NOT_FOUND
NOT_FOUND == 404
\* StatusCode::INTERNAL_SERVER_ERROR
INTERNAL_SERVER_ERROR == 500

Reqs == 1 .. MaxReqs
Uuids == 1 .. MaxReqs

(***************************************************************************)
(* Strings as character sequences.                                         *)
(***************************************************************************)
\* "artifacts.dev.azure.com"
AzureDomain ==
    << "a", "r", "t", "i", "f", "a", "c", "t", "s", ".",
       "d", "e", "v", ".", "a", "z", "u", "r", "e", ".", "c", "o", "m" >>

\* "xartifacts.dev.azure.com": another host whose name has the same suffix.
LookalikeDomain == << "x" >> \o AzureDomain

\* "a.io"
PlainDomain == << "a", ".", "i", "o" >>

\* str::ends_with
EndsWith(s, suffix) ==
    /\ Len(suffix) <= Len(s)
    /\ SubSeq(s, Len(s) - Len(suffix) + 1, Len(s)) = suffix

(***************************************************************************)
(* Option<T>                                                               *)
(***************************************************************************)
None == [some |-> FALSE]
Some(v) == [some |-> TRUE, val |-> v]

(***************************************************************************)
(* URLs.  A host is a domain name or an IP address (url::Host).            *)
(***************************************************************************)
DomainHost(name) == [kind |-> "domain", name |-> name]
IpHost == [kind |-> "ip", name |-> << >>]

\* Url::domain(): Some(name) for a domain host, None for an IP address.
Domain(url) ==
    IF url.host.kind = "domain" THEN Some(url.host.name) ELSE None

\* The mirror URL of line 94: the organization only fills a path segment, so
\* the authority is always artifacts.dev.azure.com and the parse succeeds.
MirrorUrl(organization) ==
    [host |-> DomainHost(AzureDomain), path |-> << "org", organization >>]

\* The scope of the implicit Azure DevOps entry (line 102).
MirrorScope == "499b84ac-1321-427f-aa17-267ca6975798/.default"

(***************************************************************************)
(* Configuration (struct Config, ConfigServer, ConfigCache).               *)
(***************************************************************************)
Hosts == { DomainHost(PlainDomain), DomainHost(LookalikeDomain), IpHost }
Scopes == { None, Some("scope") }

\* The [[servers]] entries a configuration is built from: every host without
\* a scope, and the plain host also with one.
ConfigServer ==
    { [url |-> [host |-> h, path |-> << >>], scope |-> None] : h \in Hosts }
    \cup { [url |-> [host |-> DomainHost(PlainDomain), path |-> << >>], scope |-> s] :
             s \in Scopes }

ServerLists == UNION { [1 .. n -> ConfigServer] : n \in 0 .. MaxServers }

ConfigCache == { None, Some([organization |-> "contoso"]) }

\* Config.listen_address: absent, a loopback address or a routable one.
ListenAddresses == { None, Some("127.0.0.1:5000"), Some("0.0.0.0:5000") }

\* Line 270-272: the address `main` binds, 127.0.0.1:5000 by default.
Addr(cfg) ==
    IF cfg.listen_address.some THEN cfg.listen_address.val ELSE "127.0.0.1:5000"

\* IpAddr::is_loopback
IsLoopback(addr) == addr = "127.0.0.1:5000"

Config ==
    { [listen_address |-> a, i_am_not_an_idiot |-> f, cache |-> c, servers |-> l] :
        a \in ListenAddresses, f \in BOOLEAN, c \in ConfigCache, l \in ServerLists }

(***************************************************************************)
(* Request keys: (name1, hash, name2).  `joinable` tells whether            *)
(* Url::join accepts "name1/hash/name2" as a relative reference: a name1   *)
(* that percent-decodes to "//[" is read as an authority and rejected.      *)
(***************************************************************************)
Keys == { [name2 |-> "foo.pdb", joinable |-> TRUE],
          [name2 |-> "bad.pdb", joinable |-> FALSE] }

\* Url::join at line 111.
JoinUrl(url, k) == IF k.joinable THEN Some([base |-> url, key |-> k]) ELSE None

(***************************************************************************)
(* The fallback chain, lines 91-108.                                       *)
(***************************************************************************)
\* Variant: the implicit entry is chained after the configured servers.
ServersAppended(cfg) ==
    IF cfg.cache.some
    THEN cfg.servers \o
         << [url |-> MirrorUrl(cfg.cache.val.organization), scope |-> Some(MirrorScope)] >>
    ELSE cfg.servers

Servers(cfg) ==
    IF cfg.cache.some
    THEN << [url |-> MirrorUrl(cfg.cache.val.organization), scope |-> Some(MirrorScope)] >>
         \o cfg.servers
    ELSE cfg.servers

(***************************************************************************)
(* HTTP statuses an upstream may answer with.                              *)
(***************************************************************************)
Statuses == { 200, 404, 503 }

\* Variants of the status test: 4xx taken for a success; the test negated.
IsSuccessLax(status) == status >= 200 /\ status < 500

IsSuccessInverted(status) == ~(status >= 200 /\ status < 300)

\* StatusCode::is_success

IsSuccess(status) == status >= 200 /\ status < 300


(***************************************************************************)
(* Upstream response bodies.  A body of n bytes is the byte sequence       *)
(* 1 .. n; a chunk is a non-empty run of consecutive bytes.                *)
(***************************************************************************)
Bytes(from, to) == [i \in 1 .. (to - from + 1) |-> from + i - 1]

(***************************************************************************)
(* State.                                                                  *)
(***************************************************************************)
VARIABLES
    config,     \* AppState.config, fixed after start-up
    admit,      \* the request slots the clients use
    net,        \* what the upstreams serve: body sizes and chunking
    main,       \* the position of `main` (start-up, lines 236-295)
    req,        \* per request: the position of `symbol` and its locals
    upstream,   \* per request: the body stream of the winning upstream
    task,       \* per request: the spawned tee task (lines 164-213)
    chan,       \* per request: the mpsc channel (tx, rx) of line 159
    client,     \* per request: what the HTTP client has received
    fs          \* the temp directory: one entry per staging directory name

vars == << config, admit, net, main, req, upstream, task, chan, client, fs >>

NoOutcome == [kind |-> "none", status |-> 0, body |-> "none"]
\* Response::builder().status(req.status()) with the upstream's headers.
Responding(status, body) == [kind |-> "responding", status |-> status, body |-> body]
\* Lines 229-232.
NotFound == [kind |-> "notfound", status |-> NOT_FOUND, body |-> "empty"]
\* Error::into_response, lines 34-43.
ErrorResponse == [kind |-> "error", status |-> INTERNAL_SERVER_ERROR, body |-> "text"]
\* A panic inside the handler: no response is produced for the request.
Panicked == [kind |-> "panic", status |-> 0, body |-> "none"]

\* content_length: what the answer forwarded at lines 142-226 declared.
IdleReq ==
    [pc |-> "idle", key |-> None, servers |-> << >>, pos |-> 1,
     attempts |-> << >>, content_length |-> None, outcome |-> NoOutcome]

NoUpstream == [open |-> FALSE, known |-> FALSE, n |-> 0, delivered |-> 0]

\* written and sent: the chunks the task has passed to write_all and to
\* tx.send so far, in order.
NoTask ==
    [pc |-> "none", uuid |-> 0, byte_count |-> 0, chunk |-> << >>,
     written |-> << >>, sent |-> << >>,
     error |-> "none", publish |-> "none", published |-> << >>]

NoChan == [made |-> FALSE, queue |-> << >>, tx |-> FALSE, rx |-> FALSE]

NoClient == [received |-> << >>, body |-> "none"]

NoDir == [state |-> "absent", file |-> FALSE, open |-> FALSE, len |-> 0, data |-> << >>]

InitCommon ==
    /\ main = [pc |-> "start", i |-> 1, why |-> "none"]
    /\ req = [r \in Reqs |-> IdleReq]
    /\ upstream = [r \in Reqs |-> NoUpstream]
    /\ task = [r \in Reqs |-> NoTask]
    /\ chan = [r \in Reqs |-> NoChan]
    /\ client = [r \in Reqs |-> NoClient]
    /\ fs = [u \in Uuids |-> NoDir]

\* Upstream bodies of up to MaxLen bytes, cut into chunks in any way.
AnyBody == [bodies |-> 0 .. MaxLen, max_chunk |-> MaxLen]

\* Any cache and server configuration, listening on the default address;
\* one request per run.
Init ==
    /\ config \in Config
    /\ config.listen_address = None
    /\ ~config.i_am_not_an_idiot
    /\ admit = {1}
    /\ net = AnyBody
    /\ InitCommon

\* Any configuration, any listen address and override flag; one request.
InitMain ==
    /\ config \in Config
    /\ admit = {1}
    /\ net = AnyBody
    /\ InitCommon

\* A configuration with a cache and one configured server that has a scope.
TeeConfig ==
    [listen_address |-> None, i_am_not_an_idiot |-> FALSE,
     cache |-> Some([organization |-> "contoso"]),
     servers |-> << [url |-> [host |-> DomainHost(PlainDomain), path |-> << >>],
                     scope |-> Some("scope")] >>]

\* One request under TeeConfig.
InitTee ==
    /\ config = TeeConfig
    /\ admit = {1}
    /\ net = AnyBody
    /\ InitCommon

\* Upstream bodies two chunks longer than the channel, in one-byte chunks.
LongBody == [bodies |-> { ChannelCapacity + 2 }, max_chunk |-> 1]

\* One request under TeeConfig with a body longer than the channel.
InitBackpressure ==
    /\ config = TeeConfig
    /\ admit = {1}
    /\ net = LongBody
    /\ InitCommon

\* Concurrent clients: every request slot is used, under TeeConfig.
InitConc ==
    /\ config = TeeConfig
    /\ admit = Reqs
    /\ net = AnyBody
    /\ InitCommon

(***************************************************************************)
(* Start-up: `main`, lines 236-295.                                        *)
(***************************************************************************)
\* Line 274.
HasAuth(cfg) == \E i \in 1 .. Len(cfg.servers) : cfg.servers[i].scope.some

\* Line 275: the condition of the bail.
RefusesToListen(cfg) ==
    HasAuth(cfg) /\ ~cfg.i_am_not_an_idiot /\ ~IsLoopback(Addr(cfg))

\* The next entry of config.servers at or after i that has a scope
\* (Len + 1 when there is none): the loop of lines 261-268.
RECURSIVE NextScoped(_, _)
NextScoped(cfg, i) ==
    IF i > Len(cfg.servers) \/ cfg.servers[i].scope.some
    THEN i
    ELSE NextScoped(cfg, i + 1)

\* Lines 261-277 from entry i on, up to the next await.
AfterTokens(i) ==
    LET j == NextScoped(config, i) IN
    IF j <= Len(config.servers)
    THEN [pc |-> "token", i |-> j, why |-> "none"]
    ELSE IF RefusesToListen(config)
         THEN [pc |-> "exited", i |-> j, why |-> "routable address"]
         ELSE [pc |-> "bind", i |-> j, why |-> "none"]

\* Line 257-258: the credential is created.
MainStart ==
    /\ main.pc = "start"
    /\ main' = AfterTokens(1)
    /\ UNCHANGED << config, admit, net, req, upstream, task, chan, client, fs >>

\* Line 258: `.context("failed to create Azure credential")?`.
MainStartFailed ==
    /\ main.pc = "start"
    /\ main' = [main EXCEPT !.pc = "exited", !.why = "failed to create Azure credential"]
    /\ UNCHANGED << config, admit, net, req, upstream, task, chan, client, fs >>

\* Lines 262-267: the token for the scope of servers[i] is acquired.
MainGetTokenOk ==
    /\ main.pc = "token"
    /\ main' = AfterTokens(main.i + 1)
    /\ UNCHANGED << config, admit, net, req, upstream, task, chan, client, fs >>

\* Line 266: `.context("failed to get token")?`.
MainGetTokenFailed ==
    /\ main.pc = "token"
    /\ main' = [main EXCEPT !.pc = "exited", !.why = "failed to get token"]
    /\ UNCHANGED << config, admit, net, req, upstream, task, chan, client, fs >>

\* Lines 279-293: the listener is bound and the router serves requests.
MainBind ==
    /\ main.pc = "bind"
    /\ main' = [main EXCEPT !.pc = "listening"]
    /\ UNCHANGED << config, admit, net, req, upstream, task, chan, client, fs >>

\* Line 281: `.context("failed to bind address")?`.
MainBindFailed ==
    /\ main.pc = "bind"
    /\ main' = [main EXCEPT !.pc = "exited", !.why = "failed to bind address"]
    /\ UNCHANGED << config, admit, net, req, upstream, task, chan, client, fs >>

(***************************************************************************)
(* The handler `symbol`, lines 86-233.                                     *)
(***************************************************************************)
Attempt(pos, kind, status) == [pos |-> pos, kind |-> kind, status |-> status]

\* `?` on an anyhow error inside `symbol`: the request ends with HTTP 500.
Fail(r) ==
    req' = [req EXCEPT ![r].pc = "done", ![r].outcome = ErrorResponse]

\* A request arrives; lines 91-108 compute the chain.
Accept(r) ==
    /\ main.pc = "listening"
    /\ r \in admit
    /\ req[r].pc = "idle"
    /\ \E k \in Keys :
         req' = [req EXCEPT ![r].pc = "loop", ![r].key = Some(k),
                            ![r].servers = Servers(config), ![r].pos = 1]
    /\ UNCHANGED << config, admit, net, main, upstream, task, chan, client, fs >>

\* `for server in servers`: lines 110-132 up to the first await, or the
\* fall-through to lines 229-232 when the list is exhausted.
NextServer(r) ==
    /\ req[r].pc = "loop"
    /\ IF req[r].pos > Len(req[r].servers)
       THEN req' = [req EXCEPT ![r].pc = "done", ![r].outcome = NotFound]
       ELSE LET server == req[r].servers[req[r].pos] IN
            IF ~JoinUrl(server.url, req[r].key.val).some
            THEN Fail(r)
            ELSE IF server.scope.some
                 THEN req' = [req EXCEPT ![r].pc = "auth"]
                 ELSE req' = [req EXCEPT ![r].pc = "send"]
    /\ UNCHANGED << config, admit, net, main, upstream, task, chan, client, fs >>

\* token.get_token(&[scope]) returns a token, lines 121-129.
GetTokenOk(r) ==
    /\ req[r].pc = "auth"
    /\ req' = [req EXCEPT ![r].pc = "send"]
    /\ UNCHANGED << config, admit, net, main, upstream, task, chan, client, fs >>

\* Variant: the failing candidate is skipped as if it had answered 404.
GetTokenFailedSkip(r) ==
    /\ req[r].pc = "auth"
    /\ req' = [req EXCEPT ![r].pc = "loop", ![r].pos = @ + 1,
                          ![r].attempts = Append(@, Attempt(req[r].pos, "tokenfail", 0))]
    /\ UNCHANGED << config, admit, net, main, upstream, task, chan, client, fs >>

\* token.get_token fails: `.context("failed to get token")?`, line 126.
GetTokenFailed(r) ==
    /\ req[r].pc = "auth"
    /\ req' = [req EXCEPT ![r].pc = "done", ![r].outcome = ErrorResponse,
                          ![r].attempts = Append(@, Attempt(req[r].pos, "tokenfail", 0))]
    /\ UNCHANGED << config, admit, net, main, upstream, task, chan, client, fs >>

\* Variant: a transport failure falls through to the next candidate.
SendFailedContinue(r) ==
    /\ req[r].pc = "send"
    /\ req' = [req EXCEPT ![r].pc = "loop", ![r].pos = @ + 1,
                          ![r].attempts = Append(@, Attempt(req[r].pos, "transport", 0))]
    /\ UNCHANGED << config, admit, net, main, upstream, task, chan, client, fs >>

\* req_builder.send() fails: `.context("failed to send request")?`, line 134.
SendFailed(r) ==
    /\ req[r].pc = "send"
    /\ req' = [req EXCEPT ![r].pc = "done", ![r].outcome = ErrorResponse,
                          ![r].attempts = Append(@, Attempt(req[r].pos, "transport", 0))]
    /\ UNCHANGED << config, admit, net, main, upstream, task, chan, client, fs >>


\* Variant: no server is recognised as the Azure DevOps one.
IsAzureDevOpsNever(domain) == FALSE

\* Lines 147-151 after the unwrap: is this the Azure DevOps server?

IsAzureDevOps(domain) == EndsWith(domain, AzureDomain)

\* tokio::spawn at line 164, with the channel of line 159.
Spawn(r, n) ==
    /\ task' = [task EXCEPT ![r] = [NoTask EXCEPT !.pc = "mkdir", !.byte_count = n]]
    /\ chan' = [chan EXCEPT ![r] = [made |-> TRUE, queue |-> << >>, tx |-> TRUE, rx |-> TRUE]]

\* Lines 142-226: a 2xx answer of `server` is forwarded.  `known` and `n`
\* are the upstream's declared content length (if any) and its body size.
Forward(r, status, known, n) ==
    LET server == req[r].servers[req[r].pos]
        done == [req EXCEPT ![r].pc = "done",
                            ![r].content_length = IF known THEN Some(n) ELSE None,
                            ![r].attempts = Append(@, Attempt(req[r].pos, "status", status))]
        body == [open |-> TRUE, known |-> known, n |-> n, delivered |-> 0]
    IN  IF ~Domain(server.url).some
        THEN \* server.url.domain().unwrap() panics
             /\ req' = [done EXCEPT ![r].outcome = Panicked]
             /\ UNCHANGED << upstream, task, chan, client >>
        ELSE IF ~IsAzureDevOps(Domain(server.url).val) /\ config.cache.some
        THEN IF ~known
             THEN \* `.context("failed to get content length")?`
                  /\ req' = [done EXCEPT ![r].outcome = ErrorResponse]
                  /\ UNCHANGED << upstream, task, chan, client >>
             ELSE /\ req' = [done EXCEPT ![r].outcome = Responding(status, "tee")]
                  /\ upstream' = [upstream EXCEPT ![r] = body]
                  /\ Spawn(r, n)
                  /\ client' = [client EXCEPT ![r].body = "open"]
        ELSE /\ req' = [done EXCEPT ![r].outcome = Responding(status, "passthrough")]
             /\ upstream' = [upstream EXCEPT ![r] = body]
             /\ client' = [client EXCEPT ![r].body = "open"]
             /\ UNCHANGED << task, chan >>

\* req_builder.send() returns a response, lines 134-227.
Respond(r) ==
    /\ req[r].pc = "send"
    /\ \E status \in Statuses :
         IF ~IsSuccess(status)
         THEN \* `continue`, line 139
              /\ req' = [req EXCEPT ![r].pc = "loop", ![r].pos = @ + 1,
                            ![r].attempts = Append(@, Attempt(req[r].pos, "status", status))]
              /\ UNCHANGED << upstream, task, chan, client >>
         ELSE \E known \in BOOLEAN, n \in net.bodies : Forward(r, status, known, n)
    /\ UNCHANGED << config, admit, net, main, fs >>

(***************************************************************************)
(* The upstream body stream (req.bytes_stream()).  It yields the body in   *)
(* chunks; a connection that breaks or ends before a declared length is    *)
(* reached is reported by the HTTP client as an error item.                *)
(***************************************************************************)
ChunkSizes(r) ==
    { k \in 1 .. (upstream[r].n - upstream[r].delivered) : k <= net.max_chunk }

StreamMayFail(r) ==
    upstream[r].delivered < upstream[r].n \/ ~upstream[r].known

StreamAtEnd(r) == upstream[r].delivered = upstream[r].n

NextChunk(r, k) == Bytes(upstream[r].delivered + 1, upstream[r].delivered + k)

(***************************************************************************)
(* Passthrough: Body::from_stream(req.bytes_stream()), lines 217 and 220.  *)
(***************************************************************************)
PassChunk(r) ==
    /\ req[r].outcome.body = "passthrough"
    /\ client[r].body = "open"
    /\ \E k \in ChunkSizes(r) :
         /\ client' = [client EXCEPT ![r].received = Append(@, NextChunk(r, k))]
         /\ upstream' = [upstream EXCEPT ![r].delivered = @ + k]
    /\ UNCHANGED << config, admit, net, main, req, task, chan, fs >>

PassError(r) ==
    /\ req[r].outcome.body = "passthrough"
    /\ client[r].body = "open"
    /\ StreamMayFail(r)
    /\ client' = [client EXCEPT ![r].body = "error"]
    /\ upstream' = [upstream EXCEPT ![r].open = FALSE]
    /\ UNCHANGED << config, admit, net, main, req, task, chan, fs >>

PassEnd(r) ==
    /\ req[r].outcome.body = "passthrough"
    /\ client[r].body = "open"
    /\ StreamAtEnd(r)
    /\ client' = [client EXCEPT ![r].body = "eof"]
    /\ upstream' = [upstream EXCEPT ![r].open = FALSE]
    /\ UNCHANGED << config, admit, net, main, req, task, chan, fs >>


(***************************************************************************)
(* The spawned tee task, lines 164-213.                                    *)
(***************************************************************************)
UsedUuids == { task[q].uuid : q \in Reqs }

\* Variant: the directory is named after the artifact, the same for every
\* request of one key.
StagingNameFromKey == { 1 }

\* Uuid::new_v4(): an identifier no other task has drawn.
NewUuid == Uuids \ UsedUuids

\* Everything the async block owns is dropped when it returns: the file
\* handle, the upstream stream and the sender of the channel.
DropLocals(r) ==
    /\ chan' = [chan EXCEPT ![r].tx = FALSE]
    /\ upstream' = [upstream EXCEPT ![r].open = FALSE]

CloseFile(dirs, u) ==
    IF u \in Uuids THEN [dirs EXCEPT ![u].open = FALSE] ELSE dirs

\* `?` inside the task: it ends with an error that nobody observes.
Abort(r, what) ==
    /\ task' = [task EXCEPT ![r].pc = "failed", ![r].error = what]
    /\ DropLocals(r)

\* Lines 165-170, create_dir_all succeeds.
TaskCreateDir(r) ==
    /\ task[r].pc = "mkdir"
    /\ \E u \in NewUuid :
         /\ task' = [task EXCEPT ![r].pc = "open", ![r].uuid = u]
         /\ fs' = [fs EXCEPT ![u].state = "present"]
    /\ UNCHANGED << config, admit, net, main, req, upstream, chan, client >>

\* Lines 165-170, create_dir_all fails.
TaskCreateDirFailed(r) ==
    /\ task[r].pc = "mkdir"
    /\ \E u \in NewUuid :
         task' = [task EXCEPT ![r].pc = "failed", ![r].uuid = u,
                              ![r].error = "failed to create temp directory"]
    /\ DropLocals(r)
    /\ UNCHANGED << config, admit, net, main, req, client, fs >>

\* Lines 174-179, the file is created and opened for writing.
TaskOpenFile(r) ==
    /\ task[r].pc = "open"
    /\ task' = [task EXCEPT ![r].pc = "setlen"]
    /\ fs' = [fs EXCEPT ![task[r].uuid].file = TRUE, ![task[r].uuid].open = TRUE]
    /\ UNCHANGED << config, admit, net, main, req, upstream, chan, client >>

TaskOpenFileFailed(r) ==
    /\ task[r].pc = "open"
    /\ Abort(r, "failed to create temporary file")
    /\ UNCHANGED << config, admit, net, main, req, client, fs >>

\* Lines 180-182, f.set_len(byte_count).
TaskSetLen(r) ==
    /\ task[r].pc = "setlen"
    /\ task' = [task EXCEPT ![r].pc = "read"]
    /\ fs' = [fs EXCEPT ![task[r].uuid].len = task[r].byte_count]
    /\ UNCHANGED << config, admit, net, main, req, upstream, chan, client >>

TaskSetLenFailed(r) ==
    /\ task[r].pc = "setlen"
    /\ Abort(r, "failed to resize temporary file")
    /\ fs' = CloseFile(fs, task[r].uuid)
    /\ UNCHANGED << config, admit, net, main, req, client >>

\* Line 184, stream.next() yields Some(Ok(chunk)).
TaskReadChunk(r) ==
    /\ task[r].pc = "read"
    /\ \E k \in ChunkSizes(r) :
         /\ task' = [task EXCEPT ![r].pc = "write", ![r].chunk = NextChunk(r, k)]
         /\ upstream' = [upstream EXCEPT ![r].delivered = @ + k]
    /\ UNCHANGED << config, admit, net, main, req, chan, client, fs >>

\* Variant: `while let Some(Ok(chunk))`, an error item ends the loop.
TaskReadFailedBreak(r) ==
    /\ task[r].pc = "read"
    /\ StreamMayFail(r)
    /\ task' = [task EXCEPT ![r].pc = "publish"]
    /\ fs' = CloseFile(fs, task[r].uuid)
    /\ UNCHANGED << config, admit, net, main, req, upstream, chan, client >>

\* Lines 184-185, stream.next() yields Some(Err(_)).
TaskReadFailed(r) ==
    /\ task[r].pc = "read"
    /\ StreamMayFail(r)
    /\ Abort(r, "failed to read chunk")
    /\ fs' = CloseFile(fs, task[r].uuid)
    /\ UNCHANGED << config, admit, net, main, req, client >>

\* Variant: the loop ends but the file handle is kept (no drop(f)).
TaskReadEndKeepOpen(r) ==
    /\ task[r].pc = "read"
    /\ StreamAtEnd(r)
    /\ task' = [task EXCEPT ![r].pc = "publish"]
    /\ UNCHANGED << config, admit, net, main, req, upstream, chan, client, fs >>

\* Lines 184 and 192, stream.next() yields None: the loop ends, drop(f).
TaskReadEnd(r) ==
    /\ task[r].pc = "read"
    /\ StreamAtEnd(r)
    /\ task' = [task EXCEPT ![r].pc = "publish"]
    /\ fs' = CloseFile(fs, task[r].uuid)
    /\ UNCHANGED << config, admit, net, main, req, upstream, chan, client >>

\* Variant: the chunk goes on to the channel without reaching the file.
TaskWriteDropped(r) ==
    /\ task[r].pc = "write"
    /\ task' = [task EXCEPT ![r].pc = "send"]
    /\ UNCHANGED << config, admit, net, main, req, upstream, chan, client, fs >>

\* Line 187, f.write_all(&chunk).
TaskWrite(r) ==
    /\ task[r].pc = "write"
    /\ task' = [task EXCEPT ![r].pc = "send", ![r].written = Append(@, task[r].chunk)]
    /\ fs' = [fs EXCEPT ![task[r].uuid].data = @ \o task[r].chunk]
    /\ UNCHANGED << config, admit, net, main, req, upstream, chan, client >>

TaskWriteFailed(r) ==
    /\ task[r].pc = "write"
    /\ Abort(r, "failed to write chunk")
    /\ fs' = CloseFile(fs, task[r].uuid)
    /\ UNCHANGED << config, admit, net, main, req, client >>

\* Variant: an unbounded channel, send never waits.
TaskSendUnbounded(r) ==
    /\ task[r].pc = "send"
    /\ chan[r].rx
    /\ task' = [task EXCEPT ![r].pc = "read", ![r].chunk = << >>,
                            ![r].sent = Append(@, task[r].chunk)]
    /\ chan' = [chan EXCEPT ![r].queue = Append(@, task[r].chunk)]
    /\ UNCHANGED << config, admit, net, main, req, upstream, client, fs >>

\* Line 188, tx.send(Ok(chunk)): waits while the channel is full.
TaskSend(r) ==
    /\ task[r].pc = "send"
    /\ chan[r].rx
    /\ Len(chan[r].queue) < ChannelCapacity
    /\ task' = [task EXCEPT ![r].pc = "read", ![r].chunk = << >>,
                            ![r].sent = Append(@, task[r].chunk)]
    /\ chan' = [chan EXCEPT ![r].queue = Append(@, task[r].chunk)]
    /\ UNCHANGED << config, admit, net, main, req, upstream, client, fs >>

\* Line 188, the receiver is gone: send returns an error.
TaskSendFailed(r) ==
    /\ task[r].pc = "send"
    /\ ~chan[r].rx
    /\ Abort(r, "failed to send chunk")
    /\ fs' = CloseFile(fs, task[r].uuid)
    /\ UNCHANGED << config, admit, net, main, req, client >>


\* What symbol.exe is handed: `-s organization -d file_path -n uuid`, and
\* the staging file as it is on disk at that moment.
Invocation(r) ==
    [organization |-> config.cache.val.organization,
     dir |-> task[r].uuid,
     name |-> task[r].uuid,
     file_len |-> fs[task[r].uuid].len,
     file_data |-> fs[task[r].uuid].data,
     file_open |-> fs[task[r].uuid].open]

\* Lines 195-206, symbol.exe ran and exited (with any exit status).
TaskPublish(r) ==
    /\ task[r].pc = "publish"
    /\ \E exit \in { "zero", "nonzero" } :
         task' = [task EXCEPT ![r].pc = "rmdir", ![r].publish = exit,
                              ![r].published = Append(@, Invocation(r))]
    /\ UNCHANGED << config, admit, net, main, req, upstream, chan, client, fs >>

\* Lines 195-206, symbol.exe could not be started:
\* `.context("failed to run symbol.exe")?`.
TaskPublishFailed(r) ==
    /\ task[r].pc = "publish"
    /\ task' = [task EXCEPT ![r].pc = "failed", ![r].publish = "notstarted",
                            ![r].published = Append(@, Invocation(r)),
                            ![r].error = "failed to run symbol.exe"]
    /\ DropLocals(r)
    /\ UNCHANGED << config, admit, net, main, req, client, fs >>

\* Lines 208-212, remove_dir_all succeeds and the task returns Ok(()).
TaskRemoveDir(r) ==
    /\ task[r].pc = "rmdir"
    /\ task' = [task EXCEPT ![r].pc = "done"]
    /\ fs' = [fs EXCEPT ![task[r].uuid].state = "removed"]
    /\ DropLocals(r)
    /\ UNCHANGED << config, admit, net, main, req, client >>

TaskRemoveDirFailed(r) ==
    /\ task[r].pc = "rmdir"
    /\ Abort(r, "failed to delete temporary directory")
    /\ UNCHANGED << config, admit, net, main, req, client, fs >>

(***************************************************************************)
(* The client side of a teed response: Body::from_stream(ReceiverStream),  *)
(* line 215.                                                               *)
(***************************************************************************)
\* rx.recv() yields a chunk, which is written to the client.
Recv(r) ==
    /\ req[r].outcome.body = "tee"
    /\ client[r].body = "open"
    /\ chan[r].queue # << >>
    /\ client' = [client EXCEPT ![r].received = Append(@, Head(chan[r].queue))]
    /\ chan' = [chan EXCEPT ![r].queue = Tail(@)]
    /\ UNCHANGED << config, admit, net, main, req, upstream, task, fs >>

\* rx.recv() yields None: every sender is dropped and the queue is empty.
RecvEnd(r) ==
    /\ req[r].outcome.body = "tee"
    /\ client[r].body = "open"
    /\ chan[r].queue = << >>
    /\ ~chan[r].tx
    /\ client' = [client EXCEPT ![r].body = "eof"]
    /\ chan' = [chan EXCEPT ![r].rx = FALSE]
    /\ UNCHANGED << config, admit, net, main, req, upstream, task, fs >>

\* The client goes away mid-stream: the response body is dropped.
Disconnect(r) ==
    /\ client[r].body = "open"
    /\ client' = [client EXCEPT ![r].body = "gone"]
    /\ IF req[r].outcome.body = "tee"
       THEN /\ chan' = [chan EXCEPT ![r].rx = FALSE, ![r].queue = << >>]
            /\ UNCHANGED upstream
       ELSE /\ upstream' = [upstream EXCEPT ![r].open = FALSE]
            /\ UNCHANGED chan
    /\ UNCHANGED << config, admit, net, main, req, task, fs >>

(***************************************************************************)
(* Specification.                                                          *)
(***************************************************************************)
Next ==
    \/ MainStart
    \/ MainStartFailed
    \/ MainGetTokenOk
    \/ MainGetTokenFailed
    \/ MainBind
    \/ MainBindFailed
    \/ \E r \in Reqs :
        \/ Accept(r)
        \/ NextServer(r)
        \/ GetTokenOk(r)
        \/ GetTokenFailed(r)
        \/ SendFailed(r)
        \/ Respond(r)
        \/ PassChunk(r)
        \/ PassError(r)
        \/ PassEnd(r)
        \/ TaskCreateDir(r)
        \/ TaskCreateDirFailed(r)
        \/ TaskOpenFile(r)
        \/ TaskOpenFileFailed(r)
        \/ TaskSetLen(r)
        \/ TaskSetLenFailed(r)
        \/ TaskReadChunk(r)
        \/ TaskReadFailed(r)
        \/ TaskReadEnd(r)
        \/ TaskWrite(r)
        \/ TaskWriteFailed(r)
        \/ TaskSend(r)
        \/ TaskSendFailed(r)
        \/ TaskPublish(r)
        \/ TaskPublishFailed(r)
        \/ TaskRemoveDir(r)
        \/ TaskRemoveDirFailed(r)
        \/ Recv(r)
        \/ RecvEnd(r)
        \/ Disconnect(r)

Spec == Init /\ [][Next]_vars

\* The steps of the spawned task of request r: tokio polls a spawned task
\* whenever it can make progress.
TaskStep(r) ==
    \/ TaskCreateDir(r) \/ TaskCreateDirFailed(r)
    \/ TaskOpenFile(r) \/ TaskOpenFileFailed(r)
    \/ TaskSetLen(r) \/ TaskSetLenFailed(r)
    \/ TaskReadChunk(r) \/ TaskReadFailed(r) \/ TaskReadEnd(r)
    \/ TaskWrite(r) \/ TaskWriteFailed(r)
    \/ TaskSend(r) \/ TaskSendFailed(r)
    \/ TaskPublish(r) \/ TaskPublishFailed(r)
    \/ TaskRemoveDir(r) \/ TaskRemoveDirFailed(r)

\* The steps of the response body of request r as the server polls it.
BodyStep(r) == Recv(r) \/ RecvEnd(r)

\* Fair scheduling of the tee task and of the response body, one request
\* under TeeConfig.
SpecLive ==
    /\ InitTee
    /\ [][Next]_vars
    /\ \A r \in Reqs : WF_vars(TaskStep(r)) /\ WF_vars(BodyStep(r))

\* A body that can fill the channel.
SpecBackpressure == InitBackpressure /\ [][Next]_vars

\* Start-up under every listen address and override flag.
SpecMain == InitMain /\ [][Next]_vars

\* Concurrent requests under one configuration.
SpecConc == InitConc /\ [][Next]_vars


(***************************************************************************)
(* Properties.                                                             *)
(***************************************************************************)
Is2xx(status) == status \in 200 .. 299

\* The attempts of request r in which an HTTP request was sent upstream.
IsContact(a) == a.kind # "tokenfail"
Contacted(r) == SelectSeq(req[r].attempts, IsContact)

Last(s) == s[Len(s)]

AnsweredNon2xx(a) == a.kind = "status" /\ ~Is2xx(a.status)

\* C1: within one request the candidates are contacted in fallback-list
\* order, one at a time (the j-th request sent goes to position j, and while
\* a request is in flight all earlier positions have been contacted), and a
\* 2xx answer is the last contact of the request: no position after the
\* winner is ever sent a request.
FallbackInOrder ==
    \A r \in Reqs :
        LET c == Contacted(r) IN
        /\ \A j \in 1 .. Len(c) :
             /\ c[j].pos = j
             /\ (c[j].kind = "status" /\ Is2xx(c[j].status)) => j = Len(c)
        /\ req[r].pc = "send" => req[r].pos = Len(c) + 1
        /\ (c # << >> /\ Last(c).kind = "status" /\ Is2xx(Last(c).status))
              => req[r].pc = "done"

\* A 2xx answer at position 2 of a chain of three, after a non-2xx at 1.
FallbackInOrderWitness ==
    \E r \in Reqs :
        /\ Len(req[r].servers) = 3
        /\ Len(Contacted(r)) = 2
        /\ AnsweredNon2xx(Contacted(r)[1])
        /\ Is2xx(Contacted(r)[2].status)
        /\ req[r].outcome.kind = "responding"

\* C2: a finished request has the outcome NotFound (404, empty body) if and
\* only if every candidate of its chain was contacted, in order, and each
\* answered with a non-2xx status (an empty chain included); and an error
\* response never follows a non-2xx answer as the last thing that happened.
NotFoundIffExhausted ==
    \A r \in Reqs :
        req[r].pc = "done" =>
            /\ req[r].outcome.kind = "notfound"
                 <=> /\ Len(req[r].attempts) = Len(req[r].servers)
                     /\ \A j \in 1 .. Len(req[r].attempts) :
                          /\ req[r].attempts[j].pos = j
                          /\ AnsweredNon2xx(req[r].attempts[j])
            /\ req[r].outcome.kind = "notfound"
                 => req[r].outcome.status = 404 /\ req[r].outcome.body = "empty"
            /\ (req[r].attempts # << >> /\ AnsweredNon2xx(Last(req[r].attempts)))
                 => req[r].outcome.kind = "notfound"

\* Three candidates, all contacted, one of them answering 503: a 404.
NotFoundIffExhaustedWitness ==
    \E r \in Reqs :
        /\ req[r].outcome.kind = "notfound"
        /\ Len(req[r].attempts) = 3
        /\ \E j \in 1 .. 3 : req[r].attempts[j].status = 503

\* C3: every finished request ends in one of the three terminal outcomes:
\* Responding (the winner's status, a streamed body), NotFound (404, empty
\* body) or an error response (500).
EveryRequestGetsAResponse ==
    \A r \in Reqs :
        req[r].pc = "done" =>
            \/ /\ req[r].outcome.kind = "responding"
               /\ req[r].outcome.status = Last(req[r].attempts).status
               /\ req[r].outcome.body \in { "passthrough", "tee" }
            \/ /\ req[r].outcome.kind = "notfound"
               /\ req[r].outcome.status = 404
               /\ req[r].outcome.body = "empty"
            \/ /\ req[r].outcome.kind = "error"
               /\ req[r].outcome.status = 500

\* C4: a transport failure at position i ends the request with HTTP 500:
\* it is the last attempt of the request, so no later candidate is contacted
\* or authenticated against, and the outcome is neither NotFound nor
\* Responding.
TransportFailureAborts ==
    \A r \in Reqs :
        \A j \in 1 .. Len(req[r].attempts) :
            req[r].attempts[j].kind = "transport" =>
                /\ j = Len(req[r].attempts)
                /\ req[r].pc = "done"
                /\ req[r].outcome.kind = "error"
                /\ req[r].outcome.status = 500

\* A transport failure at position 2 of 3, after position 1 answered non-2xx.
TransportFailureAbortsWitness ==
    \E r \in Reqs :
        /\ Len(req[r].servers) = 3
        /\ Len(req[r].attempts) = 2
        /\ AnsweredNon2xx(req[r].attempts[1])
        /\ req[r].attempts[2].kind = "transport"
        /\ req[r].attempts[2].pos = 2

\* C5 as stated: when the token provider fails, the request ends with 500
\* and no candidate of the chain at all has been sent a request.
TokenFailureNoUpstreamRequest ==
    \A r \in Reqs :
        (\E j \in 1 .. Len(req[r].attempts) : req[r].attempts[j].kind = "tokenfail") =>
            /\ req[r].outcome.kind = "error"
            /\ req[r].outcome.status = 500
            /\ Contacted(r) = << >>

\* C5 amended: when the token provider fails for the candidate at position
\* i, the request ends with 500 and no request is sent to position i or to
\* any later position; the candidates before i have been contacted and have
\* answered non-2xx.
TokenFailureStopsChain ==
    \A r \in Reqs :
        \A j \in 1 .. Len(req[r].attempts) :
            req[r].attempts[j].kind = "tokenfail" =>
                /\ j = Len(req[r].attempts)
                /\ req[r].pc = "done"
                /\ req[r].outcome.kind = "error"
                /\ req[r].outcome.status = 500
                /\ req[r].servers[req[r].attempts[j].pos].scope.some
                /\ \A c \in 1 .. Len(Contacted(r)) :
                     /\ Contacted(r)[c].pos < req[r].attempts[j].pos
                     /\ AnsweredNon2xx(Contacted(r)[c])

\* The token provider fails for a scoped candidate at position 2 or later.
TokenFailureStopsChainWitness ==
    \E r \in Reqs :
        /\ req[r].attempts # << >>
        /\ Last(req[r].attempts).kind = "tokenfail"
        /\ Last(req[r].attempts).pos >= 2
        /\ Last(req[r].attempts).pos < Len(req[r].servers)
        /\ Contacted(r) # << >>


\* C6: the chain a request works on is the synthesized cache-origin entry
\* (host artifacts.dev.azure.com, the configured organization, the fixed
\* scope) followed by the configured servers in declaration order when a
\* cache is configured, and exactly the configured servers otherwise; it
\* depends on the configuration only, whatever the request.
ChainFromConfig ==
    \A r \in Reqs :
        req[r].pc # "idle" =>
            IF config.cache.some
            THEN /\ Len(req[r].servers) = Len(config.servers) + 1
                 /\ req[r].servers[1].scope
                      = Some("499b84ac-1321-427f-aa17-267ca6975798/.default")
                 /\ req[r].servers[1].url.host = DomainHost(AzureDomain)
                 /\ req[r].servers[1].url.path
                      = << "org", config.cache.val.organization >>
                 /\ \A i \in 1 .. Len(config.servers) :
                      req[r].servers[i + 1] = config.servers[i]
            ELSE req[r].servers = config.servers

\* A cache and two different configured servers: a chain of three.
ChainFromConfigWitness ==
    \E r \in Reqs :
        /\ req[r].pc = "done"
        /\ config.cache.some
        /\ Len(config.servers) = 2
        /\ config.servers[1] # config.servers[2]
        /\ Len(req[r].servers) = 3

\* The winner of request r is the synthesized cache-origin entry.
CacheOriginWins(r) ==
    /\ req[r].outcome.kind = "responding"
    /\ config.cache.some
    /\ req[r].pos = 1

\* C7: when the synthesized cache-origin entry wins, the body is passed
\* through: no tee task is spawned, so no staging directory is created and
\* the publisher is never invoked for the request.
CacheOriginPassthrough ==
    \A r \in Reqs :
        CacheOriginWins(r) =>
            /\ req[r].outcome.body = "passthrough"
            /\ task[r] = NoTask
            /\ ~chan[r].made
            /\ \A u \in Uuids : fs[u].state = "absent"

\* The cache origin won and the client has received the whole body.
CacheOriginPassthroughWitness ==
    \E r \in Reqs :
        /\ CacheOriginWins(r)
        /\ client[r].body = "eof"
        /\ Len(client[r].received) = 2

\* C8: a winner is teed exactly when caching is configured and the winner
\* is not the synthesized cache-origin entry, whatever its base URL.
TeeIffCachedAndExplicit ==
    \A r \in Reqs :
        req[r].outcome.kind = "responding" =>
            (req[r].outcome.body = "tee" <=> (config.cache.some /\ req[r].pos > 1))

\* C9: the publisher is invoked only when the staging file holds the whole
\* upstream body: the bytes written are the body, their count is the
\* declared content length, and no read error ended the loop.
PublishOnlyComplete ==
    \A r \in Reqs :
        task[r].publish # "none" =>
            /\ fs[task[r].uuid].data = Bytes(1, task[r].byte_count)
            /\ Len(fs[task[r].uuid].data) = upstream[r].n
            /\ task[r].published[1].file_data = fs[task[r].uuid].data
            /\ task[r].published[1].file_len = Len(fs[task[r].uuid].data)
            /\ task[r].error # "failed to read chunk"

\* The publisher ran on a two-byte body that arrived in two chunks.
PublishOnlyCompleteWitness ==
    \E r \in Reqs :
        /\ task[r].publish # "none"
        /\ task[r].byte_count = 2
        /\ Len(client[r].received) = 2

\* C10: whenever the publish step fails (non-zero exit, or the tool cannot
\* be started) and the task has ended, the staging directory is deleted
\* (unless the deletion itself failed) and the response is unchanged.
PublishFailureStillCleans ==
    \A r \in Reqs :
        ( /\ task[r].pc \in { "done", "failed" }
          /\ task[r].publish \in { "nonzero", "notstarted" }
          /\ task[r].error # "failed to delete temporary directory" )
        => /\ fs[task[r].uuid].state = "removed"
           /\ req[r].outcome.kind = "responding"
           /\ req[r].outcome.body = "tee"


\* C11: in a teed response the body reaches end-of-stream once the last
\* chunk has been forwarded: when the tee loop is over and the client has
\* taken every chunk, the end of the body is available to the client, even
\* though the publisher has not exited and the directory is not deleted.
BodyEndsAfterLastChunk ==
    \A r \in Reqs :
        ( /\ task[r].pc \in { "publish", "rmdir" }
          /\ client[r].body = "open"
          /\ chan[r].queue = << >> )
        => ENABLED RecvEnd(r)


\* The errors of the task that come from staging or from the upstream read.
StagingErrors ==
    { "failed to create temp directory", "failed to create temporary file",
      "failed to resize temporary file", "failed to read chunk",
      "failed to write chunk" }

\* C12: when a staging step or an upstream read fails after the response
\* was returned, the client's body ends with an error: it never ends with
\* an ordinary end-of-stream.
StagingFailureFailsBody ==
    \A r \in Reqs :
        (task[r].pc = "failed" /\ task[r].error \in StagingErrors)
            => client[r].body # "eof"

\* C13: a client that goes away mid-stream does not cancel the tee task:
\* the task never ends on the failure to forward a chunk.
DisconnectDoesNotCancel ==
    \A r \in Reqs :
        client[r].body = "gone" =>
            ~(task[r].pc = "failed" /\ task[r].error = "failed to send chunk")


\* The bytes of a sequence of chunks.
RECURSIVE Flatten(_)
Flatten(chunks) ==
    IF chunks = << >> THEN << >> ELSE Head(chunks) \o Flatten(Tail(chunks))

\* Every task that has drawn an identifier has one of its own, its staging
\* file holds a prefix of its own upstream body, and the publisher is handed
\* the task's own directory and identifier.
StagingIsolated ==
    /\ \A r, q \in Reqs :
         (r # q /\ task[r].uuid # 0 /\ task[q].uuid # 0) => task[r].uuid # task[q].uuid
    /\ \A r \in Reqs :
         task[r].uuid # 0 =>
            /\ fs[task[r].uuid].data = Bytes(1, Len(fs[task[r].uuid].data))
            /\ fs[task[r].uuid].data = Flatten(task[r].written)
            /\ \A i \in 1 .. Len(task[r].published) :
                 /\ task[r].published[i].dir = task[r].uuid
                 /\ task[r].published[i].name = task[r].uuid

\* A step that changes a staging directory is a step of the one task that
\* owns it.
StagingStepsOwn ==
    \A u \in Uuids :
        fs'[u] # fs[u] =>
            \E r \in Reqs :
                /\ task'[r] # task[r]
                /\ task'[r].uuid = u
                /\ \A q \in Reqs \ { r } : task[q].uuid # u /\ task'[q] = task[q]

\* C14: concurrent requests for the same key each run their own
\* fetch/stage/publish cycle: each task has its own staging directory, no
\* step of one task touches the directory of another, and each invokes the
\* publisher with its own directory and identifier, under every
\* interleaving.
StagingNoInterference == [] StagingIsolated /\ [][StagingStepsOwn]_vars

\* Two requests for the same key have both staged two bytes and reached
\* the publisher, each in its own directory.
StagingNoInterferenceWitness ==
    \E r, q \in Reqs :
        /\ r # q
        /\ req[r].key = req[q].key
        /\ task[r].published # << >> /\ task[q].published # << >>
        /\ task[r].byte_count = 2 /\ task[q].byte_count = 2
        /\ fs[task[r].uuid].state = "present" /\ fs[task[q].uuid].state = "present"


\* Some upstream of the fallback chain carries an auth scope.
ChainRequiresAuth ==
    \E i \in 1 .. Len(Servers(config)) : Servers(config)[i].scope.some

\* C15: if any upstream of the fallback chain requires authentication, the
\* bind address is not a loopback address and the override flag is false,
\* the process never reaches the listening state (and never binds).
InsecureBindRefused ==
    ( /\ ChainRequiresAuth
      /\ config.listen_address.some
      /\ config.listen_address.val = "0.0.0.0:5000"
      /\ ~config.i_am_not_an_idiot )
    => main.pc \notin { "bind", "listening" }


IsPrefix(s, t) == Len(s) <= Len(t) /\ SubSeq(t, 1, Len(s)) = s

\* C16: in every state of the tee the chunks forwarded into the channel are
\* a prefix of the chunks written to the staging file, in the order read
\* from upstream (so what the client has received is a prefix too); the
\* file holds exactly the written chunks; and when the loop has ended
\* without error both sequences are equal and are the whole body.
ForwardedPrefixOfWritten ==
    \A r \in Reqs :
        task[r].pc # "none" =>
            /\ IsPrefix(task[r].sent, task[r].written)
            /\ IsPrefix(client[r].received, task[r].sent)
            /\ Len(task[r].written) <= Len(task[r].sent) + 1
            /\ (task[r].uuid # 0 => fs[task[r].uuid].data = Flatten(task[r].written))
            /\ Flatten(task[r].written) = Bytes(1, Len(Flatten(task[r].written)))
            /\ task[r].pc \in { "publish", "rmdir", "done" }
                 => /\ task[r].sent = task[r].written
                    /\ Flatten(task[r].sent) = Bytes(1, task[r].byte_count)

\* A second chunk is written and not yet forwarded; the first was forwarded.
ForwardedPrefixOfWrittenWitness ==
    \E r \in Reqs :
        /\ task[r].pc = "send"
        /\ Len(task[r].written) = 2
        /\ Len(task[r].sent) = 1


\* The staging directory of request r has been created and deleted again.
DirRemoved(r) == task[r].uuid \in Uuids /\ fs[task[r].uuid].state = "removed"

\* symbol.exe was started for request r and has exited.
PublisherRan(r) == task[r].publish \in { "zero", "nonzero" }

\* The publisher is invoked at most once, with the task's own directory and
\* identifier and the configured organization, on a closed file that holds
\* the whole body; a task that returned Ok has invoked it once and has
\* deleted the directory.
InvocationSound(r) ==
    /\ Len(task[r].published) <= 1
    /\ \A i \in 1 .. Len(task[r].published) :
         /\ task[r].published[i].dir = task[r].uuid
         /\ task[r].published[i].name = task[r].uuid
         /\ task[r].published[i].organization = config.cache.val.organization
         /\ ~task[r].published[i].file_open
         /\ task[r].published[i].file_len = task[r].byte_count
         /\ task[r].published[i].file_data = Bytes(1, task[r].byte_count)
    /\ PublisherRan(r) => Len(task[r].published) = 1
    /\ task[r].pc = "done"
         => PublisherRan(r) /\ DirRemoved(r)

\* C17: under fair scheduling, a spawned tee task whose upstream delivers
\* the whole body, whose client keeps consuming and none of whose steps
\* fails gets the publisher invoked, exactly once, with the request's own
\* directory and identifier and only after the file is fully written and
\* closed; and once the publisher has run the directory is deleted (unless
\* the deletion itself fails).
TeePublishesOnce ==
    \A r \in Reqs :
        /\ [] InvocationSound(r)
        /\ (task[r].pc = "mkdir")
              ~> (PublisherRan(r) \/ task[r].pc = "failed" \/ client[r].body = "gone")
        /\ PublisherRan(r)
              ~> (DirRemoved(r) \/ task[r].pc = "failed")

\* The task returned Ok after a two-byte body that the client read to the end.
TeePublishesOnceWitness ==
    \E r \in Reqs :
        /\ task[r].pc = "done"
        /\ task[r].byte_count = 2
        /\ Len(task[r].published) = 1
        /\ client[r].body = "eof"
        /\ fs[task[r].uuid].state = "removed"


\* C18: every staging directory a tee task created is deleted by the time
\* the task has ended, also when the task aborted before the publish step
\* (the one exception made here: the deletion itself failed).
NoStagingLeak ==
    \A r \in Reqs :
        ( /\ task[r].pc \in { "done", "failed" }
          /\ task[r].uuid \in Uuids
          /\ task[r].error # "failed to delete temporary directory" )
        => fs[task[r].uuid].state # "present"


\* The chunks the task has read from upstream so far.
ChunksRead(r) == Len(task[r].written) + (IF task[r].pc = "write" THEN 1 ELSE 0)

\* The channel holds at most 32 chunks, at most one chunk read from
\* upstream has not been accepted by the channel, and at most 33 written
\* chunks have not been received by the client.
ChannelWithinCapacity ==
    \A r \in Reqs :
        /\ Len(chan[r].queue) <= 32
        /\ ChunksRead(r) <= Len(task[r].sent) + 1
        /\ task[r].pc = "read" => task[r].sent = task[r].written
        /\ Len(task[r].written) - Len(client[r].received) <= 33

\* While the channel is full and a chunk waits to be accepted, no step
\* reads from the upstream body.
NoReadWhileFull ==
    \A r \in Reqs :
        (Len(chan[r].queue) = 32 /\ task[r].pc = "send")
            => upstream'[r].delivered = upstream[r].delivered

\* C19: the hand-off channel never holds more than 32 chunks and the next
\* upstream chunk is read only after the previous one was accepted, so at
\* most 33 written chunks are not yet received by the client, and no
\* upstream read happens while the channel is full and the client does not
\* consume.
Backpressure == [] ChannelWithinCapacity /\ [][NoReadWhileFull]_vars

\* The channel is full and the task waits with the 33rd chunk written.
BackpressureWitness ==
    \E r \in Reqs :
        /\ Len(chan[r].queue) = 32
        /\ task[r].pc = "send"
        /\ Len(task[r].written) - Len(client[r].received) = 33
        /\ client[r].body = "open"


\* C20: when caching is configured, the winner is not the cache-origin
\* entry and its answer declares no content length, the request ends with
\* HTTP 500, no tee task runs (no staging directory, no publisher) and the
\* 2xx answer is the last contact of the request.
MissingLengthIs500 ==
    \A r \in Reqs :
        ( /\ req[r].pc = "done"
          /\ config.cache.some
          /\ req[r].pos > 1
          /\ req[r].attempts # << >>
          /\ Last(req[r].attempts).kind = "status"
          /\ Is2xx(Last(req[r].attempts).status)
          /\ ~req[r].content_length.some )
        => /\ req[r].outcome.kind = "error"
           /\ req[r].outcome.status = 500
           /\ task[r] = NoTask
           /\ \A u \in Uuids : fs[u].state = "absent"

====
